---- MODULE Spec2Model ----
(***************************************************************************)
(* Promotion engine: a cart (std::string of SKU characters) is priced      *)
(* under promotions that erase what they match from the cart and return    *)
(* the charge for it; what is left is charged at unit price.               *)
(* Positions are 0-based, as std::string's are.                            *)
(***************************************************************************)
EXTENDS Integers, Sequences, FiniteSets, TLC

VARIABLES cart, promotions, pc, last

vars == <<cart, promotions, pc, last>>

(* ------------------------------ bounds -------------------------------- *)

MaxCartLen == 4
MaxQty == 3
MaxRules == 2

(* ------------------------------ data ---------------------------------- *)

\* The keys of unit_prices.
KnownSKUs == {"a", "b", "c", "d"}

\* SKU is char: any character can be put in a cart; "e" is one that
\* unit_prices has no entry for.
SKUs == KnownSKUs \cup {"e"}

unit_prices == [s \in KnownSKUs |->
                  CASE s = "a" -> 50
                    [] s = "b" -> 30
                    [] s = "c" -> 20
                    [] s = "d" -> 15]

\* std::string::npos
Npos == -1

Carts == UNION {[1..k -> SKUs] : k \in 0..MaxCartLen}

Quantities == (0 - 1)..MaxQty

PromoPrices == {0 - 5, 45}

\* Constructor arguments the list-level specification draws from:
\* <<n, sku, price>> and <<sku1, sku2, price>>.
IndividualPool == { <<2, "a", 90>>, <<1, "b", 25>>, <<0, "c", 10>>,
                    <<0 - 1, "d", 10>> }

CombinedPool == { <<"a", "b", 60>>, <<"c", "e", 0 - 5>>, <<"d", "d", 40>> }

\* The promotions and carts of scenarios B and C.
ScenarioPromotions ==
    << [kind |-> "Individual", n |-> 3, sku |-> "a", price |-> 130],
       [kind |-> "Individual", n |-> 2, sku |-> "b", price |-> 45],
       [kind |-> "Combined", sku1 |-> "c", sku2 |-> "d", price |-> 30] >>

ScenarioB == <<"a","a","a","a","a","b","b","b","b","b","c">>

ScenarioC == <<"a","a","a","b","b","b","b","b","c","d">>

(* --------------------------- std::string ------------------------------ *)

SetMin(S) == CHOOSE x \in S : \A y \in S : x <= y

\* std::string(n, ch), n already a size_type
Repeat(n, ch) == [i \in 1..n |-> ch]

\* cart.find(p): the first position where p occurs as a substring, or npos.
\* The empty string is found at position 0.
Find(str, p) ==
    LET at == { i \in 0..(Len(str) - Len(p)) :
                  \A j \in 1..Len(p) : str[i + j] = p[j] }
    IN  IF at = {} THEN Npos ELSE SetMin(at)

\* cart.find(ch)
FindChar(str, ch) == Find(str, <<ch>>)

\* The characters cart.erase(pos, n) removes: min(n, size - pos) of them.
Erased(str, pos, n) ==
    LET cnt == IF n < Len(str) - pos THEN n ELSE Len(str) - pos
    IN  SubSeq(str, pos + 1, pos + cnt)

\* cart.erase(pos, n), for pos <= size
Erase(str, pos, n) ==
    LET cnt == IF n < Len(str) - pos THEN n ELSE Len(str) - pos
    IN  SubSeq(str, 1, pos) \o SubSeq(str, pos + cnt + 1, Len(str))

(* ---------------------------- promotions ------------------------------ *)

\* The constructors store their arguments and check nothing.
Individual(n, sku, price) ==
    [kind |-> "Individual", n |-> n, sku |-> sku, price |-> price]

Combined(sku1, sku2, price) ==
    [kind |-> "Combined", sku1 |-> sku1, sku2 |-> sku2, price |-> price]

\* What a promotion's do_promote does to a cart: how it ends, the cart it
\* leaves, the price it returns and (for the record) the items it erased.
Promoted(status, c, price, removed) ==
    [status |-> status, cart |-> c, price |-> price, removed |-> removed]

\* IndividualLoop searching for sku_ where it should search for p.
RECURSIVE IndividualLoopFindSku(_, _, _, _, _)
IndividualLoopFindSku(c, r, p, price, removed) ==
    LET pos == FindChar(c, r.sku)
    IN  IF pos = Npos
        THEN Promoted("ok", c, price, removed)
        ELSE LET c2 == Erase(c, pos, r.n)
             IN  IF c2 = c
                 THEN Promoted("noexit", c, price, removed)
                 ELSE IndividualLoopFindSku(c2, r, p, price + r.price,
                                            removed \o Erased(c, pos, r.n))

\* The while loop of Individual::do_promote. An iteration that finds p and
\* leaves the cart as it was (n_ = 0: the empty p is found at 0 and
\* erase(0, 0) removes nothing) is repeated forever.
RECURSIVE IndividualLoop(_, _, _, _, _)
IndividualLoop(c, r, p, price, removed) ==
    LET pos == Find(c, p)
    IN  IF pos = Npos
        THEN Promoted("ok", c, price, removed)
        ELSE LET c2 == Erase(c, pos, r.n)
             IN  IF c2 = c
                 THEN Promoted("noexit", c, price, removed)
                 ELSE IndividualLoop(c2, r, p, price + r.price,
                                     removed \o Erased(c, pos, r.n))

\* Individual::do_promote. A negative n_ becomes a size_type above
\* max_size() and std::string(n_, sku_) throws std::length_error.
IndividualPromote(c, r) ==
    IF r.n < 0
    THEN Promoted("length_error", c, 0, <<>>)
    ELSE IndividualLoop(c, r, Repeat(r.n, r.sku), 0, <<>>)

\* CombinedLoop erasing the lower position first.
RECURSIVE CombinedLoopLowFirst(_, _, _, _)
CombinedLoopLowFirst(c, r, price, removed) ==
    LET pos1 == FindChar(c, r.sku1)
        pos2 == FindChar(c, r.sku2)
    IN  IF pos1 = Npos \/ pos2 = Npos
        THEN Promoted("ok", c, price, removed)
        ELSE LET lo == IF pos1 > pos2 THEN pos2 ELSE pos1
                 hi == IF pos1 > pos2 THEN pos1 ELSE pos2
                 c1 == Erase(c, lo, 1)
                 c2 == Erase(c1, hi, 1)
             IN  CombinedLoopLowFirst(c2, r, price + r.price,
                              removed \o Erased(c, lo, 1) \o Erased(c1, hi, 1))

\* The while loop of Combined::do_promote: the higher position is erased
\* first, then the lower one.
RECURSIVE CombinedLoop(_, _, _, _)
CombinedLoop(c, r, price, removed) ==
    LET pos1 == FindChar(c, r.sku1)
        pos2 == FindChar(c, r.sku2)
    IN  IF pos1 = Npos \/ pos2 = Npos
        THEN Promoted("ok", c, price, removed)
        ELSE LET lo == IF pos1 > pos2 THEN pos2 ELSE pos1
                 hi == IF pos1 > pos2 THEN pos1 ELSE pos2
                 c1 == Erase(c, hi, 1)
                 c2 == Erase(c1, lo, 1)
             IN  CombinedLoop(c2, r, price + r.price,
                              removed \o Erased(c, hi, 1) \o Erased(c1, lo, 1))

CombinedPromote(c, r) == CombinedLoop(c, r, 0, <<>>)

\* Promotion::promote: the virtual call
promote(c, r) ==
    IF r.kind = "Individual" THEN IndividualPromote(c, r)
                             ELSE CombinedPromote(c, r)

(* ------------------------------ pricing ------------------------------- *)

\* How a call ends: the value it returns (<<v>>, or <<>> when it does not
\* return), the working copy it leaves, each promotion's charge and erased
\* items.
Outcome(status, value, work, charges, removed) ==
    [status |-> status, value |-> value, work |-> work,
     charges |-> charges, removed |-> removed]

\* UnitLoop reading unit_prices[sku], which prices a missing key at 0.
RECURSIVE UnitLoopDefaultZero(_, _, _)
UnitLoopDefaultZero(c, i, price) ==
    IF i > Len(c)
    THEN [status |-> "returned", value |-> <<price>>]
    ELSE UnitLoopDefaultZero(c, i + 1,
            price + (IF c[i] \in DOMAIN unit_prices THEN unit_prices[c[i]] ELSE 0))

\* UnitLoop assigning the unit price where it should add it.
RECURSIVE UnitLoopAssign(_, _, _)
UnitLoopAssign(c, i, price) ==
    IF i > Len(c)
    THEN [status |-> "returned", value |-> <<price>>]
    ELSE IF c[i] \notin DOMAIN unit_prices
         THEN [status |-> "out_of_range", value |-> <<>>]
         ELSE UnitLoopAssign(c, i + 1, unit_prices[c[i]])

\* calculate_price(cart): unit_prices.at(sku) throws std::out_of_range for a
\* SKU that is not a key.
RECURSIVE UnitLoop(_, _, _)
UnitLoop(c, i, price) ==
    IF i > Len(c)
    THEN [status |-> "returned", value |-> <<price>>]
    ELSE IF c[i] \notin DOMAIN unit_prices
         THEN [status |-> "out_of_range", value |-> <<>>]
         ELSE UnitLoop(c, i + 1, price + unit_prices[c[i]])

calculate_price(c) == UnitLoop(c, 1, 0)

\* price += calculate_price(cart); return price;
ChargeRest(price, work, charges, removed) ==
    LET u == calculate_price(work)
    IN  IF u.status = "returned"
        THEN Outcome("returned", <<price + u.value[1]>>, work, charges, removed)
        ELSE Outcome(u.status, <<>>, work, charges, removed)

\* calculate_price(c, promotion)
calculate_price_one(c, r) ==
    LET p == promote(c, r)
    IN  IF p.status = "ok"
        THEN ChargeRest(p.price, p.cart, <<p.price>>, <<p.removed>>)
        ELSE Outcome(p.status, <<>>, p.cart, <<>>, <<>>)

\* Accumulate assigning the charge where it should add it.
AccumulateAssign(price, charge) == charge

\* price += promotion->promote(cart)
Accumulate(price, charge) == price + charge

\* The for loop of calculate_price(c, promotions), from promotion i on.
RECURSIVE PromotionsLoop(_, _, _, _, _, _)
PromotionsLoop(ps, i, work, price, charges, removed) ==
    IF i > Len(ps)
    THEN ChargeRest(price, work, charges, removed)
    ELSE LET p == promote(work, ps[i])
         IN  IF p.status = "ok"
             THEN PromotionsLoop(ps, i + 1, p.cart, Accumulate(price, p.price),
                                 Append(charges, p.price),
                                 Append(removed, p.removed))
             ELSE Outcome(p.status, <<>>, p.cart, charges, removed)

\* calculate_price(c, promotions)
calculate_price_list(c, ps) == PromotionsLoop(ps, 1, c, 0, <<>>, <<>>)

\* CallerCart when the promotions work on the caller's string.
CallerCartAliased(c, work) == work

\* The caller's cart after a pricing call: the parameter is a const
\* reference and the promotions work on the copy `Cart cart = c`.
CallerCart(c, work) == c

(* ------------------------------ actions ------------------------------- *)

NoCall == [op |-> "none", rule |-> 0, before |-> <<>>,
           out |-> Outcome("none", <<>>, <<>>, <<>>, <<>>)]

\* A loop that never exits adds price_ on every iteration; a non-zero price_
\* overflows the int in the end, which is undefined: the loop goes on with
\* a wrapped value or the program traps.
Endings(status, r) ==
    IF status = "noexit"
    THEN IF r.price = 0 THEN {"hang"} ELSE {"hang", "overflow"}
    ELSE {status}

Position(status) ==
    CASE status = "returned" -> "returned"
      [] status \in {"hang"} -> "hung"
      [] OTHER -> "threw"

Init ==
    /\ cart \in Carts
    /\ promotions = <<>>
    /\ pc = "setup"
    /\ last = NoCall

\* The fixture of scenarios B and C, or an empty promotion list.
InitList ==
    /\ \/ cart \in Carts /\ promotions = <<>>
       \/ cart \in {ScenarioB, ScenarioC} /\ promotions = ScenarioPromotions
    /\ pc = "setup"
    /\ last = NoCall

\* promotions.push_back(std::make_unique<Individual>(n, sku, price))
NewIndividual(n, sku, price) ==
    /\ pc = "setup"
    /\ promotions' = Append(promotions, Individual(n, sku, price))
    /\ UNCHANGED <<cart, pc, last>>

\* promotions.push_back(std::make_unique<Combined>(sku1, sku2, price))
NewCombined(sku1, sku2, price) ==
    /\ pc = "setup"
    /\ promotions' = Append(promotions, Combined(sku1, sku2, price))
    /\ UNCHANGED <<cart, pc, last>>

\* promotion->promote(cart) on the caller's own cart
Promote(i) ==
    /\ pc = "setup"
    /\ i \in 1..Len(promotions)
    /\ LET p == promote(cart, promotions[i])
       IN  \E st \in Endings(IF p.status = "ok" THEN "returned" ELSE p.status,
                             promotions[i]) :
             /\ cart' = p.cart
             /\ pc' = Position(st)
             /\ last' = [op |-> "promote", rule |-> i, before |-> cart,
                         out |-> Outcome(st,
                                         IF st = "returned" THEN <<p.price>>
                                                            ELSE <<>>,
                                         p.cart, <<>>, <<p.removed>>)]
    /\ UNCHANGED promotions

\* calculate_price(cart)
PriceCart ==
    /\ pc = "setup"
    /\ LET u == calculate_price(cart)
       IN  /\ cart' = CallerCart(cart, cart)
           /\ pc' = Position(u.status)
           /\ last' = [op |-> "price", rule |-> 0, before |-> cart,
                       out |-> Outcome(u.status, u.value, cart, <<>>, <<>>)]
    /\ UNCHANGED promotions

\* calculate_price(cart, promotion.get())
PriceOne(i) ==
    /\ pc = "setup"
    /\ i \in 1..Len(promotions)
    /\ LET o == calculate_price_one(cart, promotions[i])
       IN  \E st \in Endings(o.status, promotions[i]) :
             /\ cart' = CallerCart(cart, o.work)
             /\ pc' = Position(st)
             /\ last' = [op |-> "price_one", rule |-> i, before |-> cart,
                         out |-> [o EXCEPT !.status = st]]
    /\ UNCHANGED promotions

\* The promotion whose loop does not exit, if the call ended that way.
Stuck(ps, o) == ps[Len(o.charges) + 1]

\* calculate_price(cart, promotions)
PriceList ==
    /\ pc = "setup"
    /\ LET o == calculate_price_list(cart, promotions)
       IN  \E st \in Endings(o.status,
                             IF o.status = "noexit" THEN Stuck(promotions, o)
                                                    ELSE [price |-> 0]) :
             /\ cart' = CallerCart(cart, o.work)
             /\ pc' = Position(st)
             /\ last' = [op |-> "price_list", rule |-> 0, before |-> cart,
                         out |-> [o EXCEPT !.status = st]]
    /\ UNCHANGED promotions

\* A promotion list is built from the pool, then priced.
NewPooledIndividual ==
    /\ Len(promotions) < MaxRules
    /\ \E a \in IndividualPool : NewIndividual(a[1], a[2], a[3])

NewPooledCombined ==
    /\ Len(promotions) < MaxRules
    /\ \E a \in CombinedPool : NewCombined(a[1], a[2], a[3])

Next ==
    \/ NewPooledIndividual
    \/ NewPooledCombined
    \/ PriceList

Spec == InitList /\ [][Next]_vars

\* One promotion of any shape is built, then applied or priced with.
NewAnyIndividual ==
    /\ promotions = <<>>
    /\ \E n \in Quantities, s \in SKUs, p \in PromoPrices : NewIndividual(n, s, p)

NewAnyCombined ==
    /\ promotions = <<>>
    /\ \E s1 \in SKUs, s2 \in SKUs, p \in PromoPrices : NewCombined(s1, s2, p)

PromoteIt == \E i \in 1..Len(promotions) : Promote(i)

PriceWithIt == \E i \in 1..Len(promotions) : PriceOne(i)

NextRule ==
    \/ NewAnyIndividual
    \/ NewAnyCombined
    \/ PromoteIt
    \/ PriceCart
    \/ PriceWithIt
    \/ PriceList

SpecRule == Init /\ [][NextRule]_vars

(* --------------------------- vocabulary ------------------------------- *)

\* Number of occurrences of s in a cart.
Count(str, s) == Cardinality({i \in 1..Len(str) : str[i] = s})

RECURSIVE SumSeq(_)
SumSeq(q) == IF q = <<>> THEN 0 ELSE q[1] + SumSeq(Tail(q))

RECURSIVE SumOver(_, _)
SumOver(S, str) ==
    IF S = {} THEN 0
    ELSE LET s == CHOOSE x \in S : TRUE
         IN  Count(str, s) * unit_prices[s] + SumOver(S \ {s}, str)

\* Sum of the unit prices of a cart of known SKUs, by count.
UnitSum(str) == SumOver(KnownSKUs, str)

AllKnown(str) == \A i \in 1..Len(str) : str[i] \in KnownSKUs

\* A rule the specification calls well configured.
Valid(r) ==
    /\ r.price >= 0
    /\ IF r.kind = "Individual" THEN r.n >= 1 ELSE r.sku1 # r.sku2

Names(r) == IF r.kind = "Individual" THEN {r.sku} ELSE {r.sku1, r.sku2}

TheRule == promotions[last.rule]

Min2(x, y) == IF x < y THEN x ELSE y

\* The last call's result, as far as a caller sees it.
Seen(o) == <<o.status, o.value>>

\* The cart with items i and j exchanged.
Swap(str, i, j) ==
    [k \in 1..Len(str) |-> IF k = i THEN str[j] ELSE IF k = j THEN str[i] ELSE str[k]]

Orders(n) == {f \in [1..n -> 1..n] : \A i, j \in 1..n : f[i] = f[j] => i = j}

Reordered(ps, f) == [i \in 1..Len(ps) |-> ps[f[i]]]

\* The cart after the first i promotions of ps, each applied to what the
\* one before it left.
RECURSIVE CartAfter(_, _, _)
CartAfter(str, ps, i) ==
    IF i = 0 THEN str ELSE promote(CartAfter(str, ps, i - 1), ps[i]).cart

(* ------------------------------ claims -------------------------------- *)

\* C1: a bundle rule (n >= 1, s, p >= 0) applied to a cart holding k items s
\* returns (k div n) * p, leaves k mod n items s and removes nothing else,
\* however the items are arranged in the cart.
C1_BundleByCount ==
    (last.op = "promote" /\ TheRule.kind = "Individual" /\ Valid(TheRule)) =>
        LET r == TheRule
            k == Count(last.before, r.sku)
        IN  /\ last.out.status = "returned"
            /\ last.out.value = <<(k \div r.n) * r.price>>
            /\ Count(cart, r.sku) = k % r.n
            /\ \A s \in SKUs \ {r.sku} : Count(cart, s) = Count(last.before, s)

\* C2: a pair rule (s1 # s2, p) applied to a cart holding k1 items s1 and
\* k2 items s2 returns min(k1, k2) * p, removes min(k1, k2) of each and
\* nothing else, and leaves a cart without s1 or without s2.
C2_PairByCount ==
    (last.op = "promote" /\ TheRule.kind = "Combined"
       /\ TheRule.sku1 # TheRule.sku2) =>
        LET r == TheRule
            k1 == Count(last.before, r.sku1)
            k2 == Count(last.before, r.sku2)
            m == Min2(k1, k2)
        IN  /\ last.out.status = "returned"
            /\ last.out.value = <<m * r.price>>
            /\ Count(cart, r.sku1) = k1 - m
            /\ Count(cart, r.sku2) = k2 - m
            /\ \A s \in SKUs \ {r.sku1, r.sku2} :
                  Count(cart, s) = Count(last.before, s)
            /\ Count(cart, r.sku1) = 0 \/ Count(cart, r.sku2) = 0

C2_Witness ==
    /\ last.op = "promote" /\ TheRule.kind = "Combined"
    /\ TheRule.sku1 # TheRule.sku2
    /\ Count(last.before, TheRule.sku1) = 2
    /\ Count(last.before, TheRule.sku2) = 1
    /\ Len(cart) = 2
    /\ Count(cart, TheRule.sku1) = 1

\* C3: calculate_price(cart, promotions) applies the promotions in list
\* order, each to the cart the ones before it left, and returns the sum of
\* their charges plus the unit prices of what the last one left; every item
\* is erased by one promotion or charged at unit price; scenarios B and C
\* cost 370 and 280.
C3_OrderedComposition ==
    (last.op = "price_list" /\ last.out.status = "returned") =>
        LET o == last.out
            n == Len(promotions)
        IN  /\ Len(o.charges) = n
            /\ \A i \in 1..n :
                  o.charges[i] =
                     promote(CartAfter(last.before, promotions, i - 1),
                             promotions[i]).price
            /\ o.work = CartAfter(last.before, promotions, n)
            /\ AllKnown(o.work)
            /\ o.value = <<SumSeq(o.charges) + UnitSum(o.work)>>
            /\ \A s \in SKUs :
                  Count(last.before, s) =
                     Count(o.work, s)
                       + SumSeq([i \in 1..n |-> Count(o.removed[i], s)])
            /\ (promotions = ScenarioPromotions /\ last.before = ScenarioB)
                  => o.value = <<370>>
            /\ (promotions = ScenarioPromotions /\ last.before = ScenarioC)
                  => o.value = <<280>>

C3_Witness ==
    /\ last.op = "price_list" /\ last.out.status = "returned"
    /\ Len(promotions) = 2
    /\ promotions[1].kind = "Individual" /\ promotions[2].kind = "Combined"
    /\ promotions[1].sku = promotions[2].sku1
    /\ last.out.charges[1] > 0 /\ last.out.charges[2] = 0
    /\ Count(last.before, promotions[2].sku2) > 0
    /\ last.out.work # <<>>

\* C4: the price of a cart under a list of well-configured rules is the
\* price of the same cart with any two of its items exchanged.
C4_OrderOfItemsIrrelevant ==
    (last.op = "price_list" /\ \A i \in 1..Len(promotions) : Valid(promotions[i])) =>
        \A i, j \in 1..Len(last.before) :
            Seen(calculate_price_list(Swap(last.before, i, j), promotions))
               = Seen(last.out)

\* C5: no bundle rule with n <= 0, no pair rule with s1 = s2 and no rule
\* with a negative price is ever constructed.
C5_InvalidRuleNeverExists ==
    \A i \in 1..Len(promotions) : Valid(promotions[i])

\* C6: a pricing call, whether it returns or fails, leaves the caller's cart
\* as it was, item for item.
C6_CallerCartUnchanged ==
    last.op \in {"price", "price_one", "price_list"} => cart = last.before

C6_Witness ==
    /\ last.op \in {"price_one", "price_list"}
    /\ last.out.status = "out_of_range"
    /\ Len(last.out.work) < Len(last.before)
    /\ cart = last.before

\* C7: once every promotion has been applied, the call fails with
\* out_of_range exactly when the cart they left holds a SKU without a unit
\* price; a failed call returns no value, a returned value charges every
\* item left at its unit price, and a SKU without a unit price that a
\* promotion erased fails nothing.
C7_UnknownSkuLazily ==
    (last.op = "price_list") =>
        LET o == last.out
            applied == CartAfter(last.before, promotions, Len(promotions))
        IN  /\ o.status = "out_of_range" =>
                  /\ Len(o.charges) = Len(promotions)
                  /\ ~AllKnown(applied)
                  /\ o.value = <<>>
            /\ o.status # "returned" => o.value = <<>>
            /\ Len(o.charges) = Len(promotions) =>
                  /\ o.status \in {"returned", "out_of_range"}
                  /\ ~AllKnown(applied) => o.status = "out_of_range"
            /\ o.status = "returned" =>
                  /\ AllKnown(applied)
                  /\ o.value = <<SumSeq(o.charges) + UnitSum(applied)>>

C7_Witness ==
    /\ last.op = "price_list" /\ last.out.status = "returned"
    /\ ~AllKnown(last.before)
    /\ Len(last.out.work) > 0

\* C8: a rule without a match returns 0 and leaves the cart as it was, and
\* pricing with it is pricing without it.
NoMatch(str, r) ==
    IF r.kind = "Individual"
    THEN Count(str, r.sku) < r.n
    ELSE Count(str, r.sku1) = 0 \/ Count(str, r.sku2) = 0

C8_NoMatchNoEffect ==
    /\ (last.op = "promote" /\ NoMatch(last.before, TheRule)) =>
          /\ last.out.status = "returned"
          /\ last.out.value = <<0>>
          /\ cart = last.before
    /\ (last.op = "price_one" /\ NoMatch(last.before, TheRule)) =>
          Seen(last.out) = Seen(calculate_price(last.before))

C8_Witness ==
    /\ last.op = "promote" /\ TheRule.kind = "Individual"
    /\ TheRule.n >= 2
    /\ Count(last.before, TheRule.sku) = TheRule.n - 1
    /\ Len(last.before) > TheRule.n
    /\ last.out.value = <<0>>

\* C9: without promotions the price of a cart of known SKUs is the sum of
\* the prices of any two carts it is the concatenation of, the empty cart
\* costs 0, and k items s cost k times one item s.
C9_Additive ==
    (last.op = "price" /\ AllKnown(last.before)) =>
        LET c == last.before
            P(x) == calculate_price(x).value[1]
        IN  /\ last.out.status = "returned"
            /\ \A k \in 0..Len(c) :
                  last.out.value[1]
                     = P(SubSeq(c, 1, k)) + P(SubSeq(c, k + 1, Len(c)))
            /\ c = <<>> => last.out.value = <<0>>
            /\ \A s \in KnownSKUs :
                  Count(c, s) = Len(c) => last.out.value[1] = Len(c) * P(<<s>>)

C9_Witness ==
    /\ last.op = "price" /\ AllKnown(last.before)
    /\ Len(last.before) >= 3
    /\ last.before[1] # last.before[2]
    /\ last.out.status = "returned"

\* C10: under well-configured rules that name pairwise different SKUs, the
\* price is the same in whatever order the rules are listed.
C10_OrderOfDisjointRulesIrrelevant ==
    (/\ last.op = "price_list"
     /\ \A i \in 1..Len(promotions) : Valid(promotions[i])
     /\ \A i, j \in 1..Len(promotions) :
           i # j => Names(promotions[i]) \cap Names(promotions[j]) = {}) =>
        \A f \in Orders(Len(promotions)) :
            Seen(calculate_price_list(last.before, Reordered(promotions, f)))
               = Seen(last.out)

====
